---- MODULE Spec2Model ----
(***************************************************************************)
(* engine-cache: a registry of template engines keyed by file extension,   *)
(* plus a flat options store (src/index.js).                               *)
(*                                                                         *)
(* Extension strings are sequences of one-character strings, so that       *)
(* ext[0] and '.' + ext are computed as the code computes them.            *)
(* JavaScript values are strings: the name of a heap object, or one of     *)
(* the tokens "undefined", "null", "str" (a string that is no function),     *)
(* "emptyObj" (a fresh {}), "optsA", "ownOpts" (option mappings).          *)
(* A property an object does not have is "absent"; reading it gives        *)
(* "undefined".                                                            *)
(*                                                                         *)
(* held is the caller's reference to a mapping that get() returned: "live" *)
(* while that mapping is the registry's cache object, "detached" with its  *)
(* own entries once the registry has replaced its cache by a new object.   *)
(***************************************************************************)
EXTENDS Integers, Sequences, FiniteSets, TLC

VARIABLES options, cache, heap, call, ret, nops, held

vars == <<options, cache, heap, call, ret, nops, held>>

----------------------------------------------------------------------------
(* Bounds *)

MaxOps == 3

MaxVal == 2

----------------------------------------------------------------------------
(* Values *)

Tmpl == <<"t", "m", "p", "l">>

Star == <<"*">>

DotTmpl == <<".">> \o Tmpl

Exts == {<<>>, Star, <<"x">>, DotTmpl}

OptKeys == {"a", "b"}

(* The names every plain object inherits from Object.prototype. *)
ProtoKeys ==
  {"constructor", "hasOwnProperty", "isPrototypeOf", "propertyIsEnumerable",
   "toLocaleString", "toString", "valueOf", "__proto__",
   "__defineGetter__", "__defineSetter__", "__lookupGetter__", "__lookupSetter__"}

(* The keys the calls pass: two ordinary ones, an inherited method and the
   prototype accessor. *)
KeyArgs == OptKeys \cup {"toString", "__proto__"}

(* What a read of an inherited name gives on an object without that own key. *)
ObjectPrototype ==
  [k \in ProtoKeys |->
     CASE k = "__proto__" -> "Object.prototype"
       [] k = "constructor" -> "Object"
       [] OTHER -> "Object.prototype." \o k]

OptVals == 1..MaxVal

OptMaps == UNION {[D -> OptVals] : D \in SUBSET OptKeys}

EmptyMap == [k \in {} |-> 0]

Functions == {"fn", "fnR", "rfn", "xfn", "lodashRender", "noopRender"}

DefaultsHeap ==
  [n \in {"lodash", "noop"} |->
     [kind |-> "object",
      render |-> IF n = "lodash" THEN "lodashRender" ELSE "noopRender",
      renderFile |-> "absent", express |-> "absent", options |-> "absent"]]

CallerHeap ==
  [n \in {"fn", "fnR", "objR", "objO", "objE", "objS"} |->
     [kind |-> IF n \in {"fn", "fnR"} THEN "function" ELSE "object",
      render |-> CASE n \in {"fnR", "objR", "objO"} -> "rfn"
                   [] n = "objS" -> "str"
                   [] OTHER -> "absent",
      renderFile |-> IF n = "objO" THEN "xfn" ELSE "absent",
      express |-> IF n = "objR" THEN "xfn" ELSE "absent",
      options |-> IF n = "objO" THEN "ownOpts" ELSE "absent"]]

EngineArgs == DOMAIN CallerHeap \cup {"null"}

OptionArgs == {"optsA"}

----------------------------------------------------------------------------
(* JavaScript primitives used by the code *)

Read(v) == IF v = "absent" THEN "undefined" ELSE v

Truthy(v) == v \notin {"absent", "undefined", "null"}

TypeOf(h, v) ==
  CASE v \in Functions -> "function"
    [] v \in DOMAIN h \cup {"null", "emptyObj", "optsA", "ownOpts"} -> "object"
    [] v = "undefined" -> "undefined"
    [] OTHER -> "string"

Put(f, k, v) == [x \in DOMAIN f \cup {k} |-> IF x = k THEN v ELSE f[x]]

Remove(f, k) == [x \in DOMAIN f \ {k} |-> f[x]]

Assign(f, g) == [k \in DOMAIN f \cup DOMAIN g |-> IF k \in DOMAIN g THEN g[k] ELSE f[k]]

Ret(kind, ref, val) == [kind |-> kind, ref |-> ref, val |-> val]

Call(op, argc) ==
  [op |-> op, argc |-> argc, ext |-> <<>>, a2 |-> "", a3 |-> "",
   key |-> "", val |-> 0, obj |-> EmptyMap, list |-> <<>>]

----------------------------------------------------------------------------
(* register, src/index.js:145-177 *)

NormExtAlways(ext) == <<".">> \o ext

NormExt(ext) == IF Len(ext) = 0 \/ ext[1] # "." THEN <<".">> \o ext ELSE ext

RegFn(argc, a2, a3) == IF argc = 2 THEN a2 ELSE a3

RegOptions(argc, a2) == IF argc = 2 THEN "emptyObj" ELSE a2

ResolveEngine(h, fn) ==
  CASE TypeOf(h, fn) = "function" /\ fn \in DOMAIN h ->
         [heap |-> [h EXCEPT ![fn].render = Read(h[fn].render)], throws |-> FALSE]
    [] TypeOf(h, fn) = "object" /\ fn \in DOMAIN h ->
         [heap |-> [h EXCEPT ![fn].renderFile =
                      IF Truthy(h[fn].renderFile) THEN h[fn].renderFile
                      ELSE Read(h[fn].express)],
          throws |-> FALSE]
    [] fn = "null" -> [heap |-> h, throws |-> TRUE]
    [] OTHER -> [heap |-> h, throws |-> FALSE]

EngineOptions(own, opts) ==
  IF Truthy(own) THEN own ELSE IF Truthy(opts) THEN opts ELSE "emptyObj"

SetOptions(h, fn, opts) ==
  CASE fn \in DOMAIN h ->
         [heap |-> [h EXCEPT ![fn].options = EngineOptions(h[fn].options, opts)],
          throws |-> FALSE]
    [] fn \in {"null", "undefined"} -> [heap |-> h, throws |-> TRUE]
    [] OTHER -> [heap |-> h, throws |-> FALSE]

HasRender(h, fn) == fn \in DOMAIN h /\ Read(h[fn].render) \in Functions

StoreEngineUnchecked(c, h, ext, fn) ==
  [cache |-> Put(c, NormExt(ext), fn), heap |-> h,
   ret |-> IF HasRender(h, fn) THEN Ret("registry", "", 0)
           ELSE Ret("throw", "InvalidEngine", 0)]

StoreEngineFirstWins(c, h, ext, fn) ==
  IF HasRender(h, fn)
  THEN [cache |-> IF NormExt(ext) \in DOMAIN c THEN c ELSE Put(c, NormExt(ext), fn),
        heap |-> h, ret |-> Ret("registry", "", 0)]
  ELSE [cache |-> c, heap |-> h, ret |-> Ret("throw", "InvalidEngine", 0)]

StoreEngine(c, h, ext, fn) ==
  IF HasRender(h, fn)
  THEN [cache |-> Put(c, NormExt(ext), fn), heap |-> h, ret |-> Ret("registry", "", 0)]
  ELSE [cache |-> c, heap |-> h, ret |-> Ret("throw", "InvalidEngine", 0)]

register(c, h, ext, argc, a2, a3) ==
  LET fn == RegFn(argc, a2, a3)
      r1 == ResolveEngine(h, fn)
      r2 == SetOptions(r1.heap, fn, RegOptions(argc, a2))
  IN  IF r1.throws \/ r2.throws
      THEN [cache |-> c, heap |-> r1.heap, ret |-> Ret("throw", "TypeError", 0)]
      ELSE StoreEngine(c, r2.heap, ext, fn)

Register ==
  /\ nops < MaxOps
  /\ \E ext \in Exts, argc \in {2, 3}, a2 \in EngineArgs \cup OptionArgs, a3 \in EngineArgs :
       /\ argc = 2 => a2 \in EngineArgs /\ a3 = "null"
       /\ argc = 3 => a2 \in OptionArgs /\ a3 \in DOMAIN CallerHeap
       /\ LET r == register(cache, heap, ext, argc, a2, a3)
          IN  /\ cache' = r.cache
              /\ heap' = r.heap
              /\ ret' = r.ret
              /\ call' = [Call("register", argc) EXCEPT !.ext = ext, !.a2 = a2,
                            !.a3 = IF argc = 3 THEN a3 ELSE ""]
  /\ nops' = nops + 1
  /\ UNCHANGED <<options, held>>

----------------------------------------------------------------------------
(* init, defaultEngines, extend, option: src/index.js:54-127 *)

extendReplace(o, obj) == obj

extend(o, obj) == Assign(Assign(EmptyMap, o), obj)

initOptionsKeep(o, opts) == extend(o, opts)

initOptions(o, opts) == extend(EmptyMap, opts)

optionMerge(o, obj) == Assign(o, obj)

optionSet(o, key, value) == IF key = "__proto__" THEN o ELSE Put(o, key, value)

NotHeld == [state |-> "none", map |-> EmptyMap]

emptiedInPlace(hd, c) == hd

replaceCache(hd, c) ==
  IF hd.state = "live" THEN [state |-> "detached", map |-> c] ELSE hd

defaultEngines(c, h) ==
  LET r1 == register(c, h, Tmpl, 2, "lodash", "")
  IN  IF r1.ret.kind = "throw" THEN r1
      ELSE LET r2 == register(r1.cache, r1.heap, Star, 2, "noop", "")
           IN  IF r2.ret.kind = "throw" THEN r2
               ELSE [r2 EXCEPT !.ret = Ret("undefined", "", 0)]

initCall(opts, argc) ==
  /\ nops < MaxOps
  /\ LET r == defaultEngines(EmptyMap, heap)
     IN  /\ options' = initOptions(options, opts)
         /\ cache' = r.cache
         /\ heap' = r.heap
         /\ ret' = r.ret
         /\ call' = [Call("init", argc) EXCEPT !.obj = opts]
  /\ held' = replaceCache(held, cache)
  /\ nops' = nops + 1

init == \E opts \in OptMaps : initCall(opts, 1)

initNoArgs == initCall(EmptyMap, 0)

(* engines(options), src/index.js:24-27: init through the exported function,
   which returns the registry. *)
enginesCall(opts, argc) ==
  /\ nops < MaxOps
  /\ LET r == defaultEngines(EmptyMap, heap)
     IN  /\ options' = initOptions(options, opts)
         /\ cache' = r.cache
         /\ heap' = r.heap
         /\ ret' = IF r.ret.kind = "throw" THEN r.ret ELSE Ret("registry", "", 0)
         /\ call' = [Call("engines", argc) EXCEPT !.obj = opts]
  /\ held' = replaceCache(held, cache)
  /\ nops' = nops + 1

engines == \E opts \in OptMaps : enginesCall(opts, 1)

enginesNoArgs == enginesCall(EmptyMap, 0)

(* defaultEngines() called on its own, src/index.js:69-73: registers the two
   bundled descriptors in the current cache. *)
DefaultEngines ==
  /\ nops < MaxOps
  /\ LET r == defaultEngines(cache, heap)
     IN  /\ cache' = r.cache
         /\ heap' = r.heap
         /\ ret' = r.ret
  /\ call' = Call("defaultEngines", 0)
  /\ nops' = nops + 1
  /\ UNCHANGED <<options, held>>

Extend ==
  /\ nops < MaxOps
  /\ \E obj \in OptMaps :
       /\ options' = extend(options, obj)
       /\ ret' = Ret("registry", "", 0)
       /\ call' = [Call("extend", 1) EXCEPT !.obj = obj]
  /\ nops' = nops + 1
  /\ UNCHANGED <<cache, heap, held>>

OptionRead(o, key) ==
  IF key \in DOMAIN o THEN Ret("value", "", o[key])
  ELSE IF key \in DOMAIN ObjectPrototype THEN Ret("value", ObjectPrototype[key], 0)
  ELSE Ret("undefined", "", 0)

OptionGet ==
  /\ nops < MaxOps
  /\ \E key \in KeyArgs :
       /\ ret' = OptionRead(options, key)
       /\ call' = [Call("option", 1) EXCEPT !.key = key]
  /\ nops' = nops + 1
  /\ UNCHANGED <<options, cache, heap, held>>

OptionMerge ==
  /\ nops < MaxOps
  /\ \E obj \in OptMaps :
       /\ options' = optionMerge(options, obj)
       /\ ret' = Ret("registry", "", 0)
       /\ call' = [Call("option", 1) EXCEPT !.obj = obj]
  /\ nops' = nops + 1
  /\ UNCHANGED <<cache, heap, held>>

OptionSet ==
  /\ nops < MaxOps
  /\ \E key \in KeyArgs, value \in OptVals :
       /\ options' = optionSet(options, key, value)
       /\ ret' = Ret("registry", "", 0)
       /\ call' = [Call("option", 2) EXCEPT !.key = key, !.val = value]
  /\ nops' = nops + 1
  /\ UNCHANGED <<cache, heap, held>>

----------------------------------------------------------------------------
(* get, clear: src/index.js:224-266 *)

Lookup(c, key) == IF key \in DOMAIN c THEN c[key] ELSE "undefined"

getOrThrow(c, argc, ext) ==
  IF argc = 0 \/ Len(ext) = 0
  THEN Ret("cache", "", 0)
  ELSE LET engine == Lookup(c, NormExt(ext))
           found == IF Truthy(engine) THEN engine ELSE Lookup(c, Star)
       IN  IF Truthy(found) THEN Ret("engine", found, 0) ELSE Ret("throw", "UnknownEngine", 0)

get(c, argc, ext) ==
  IF argc = 0 \/ Len(ext) = 0
  THEN Ret("cache", "", 0)
  ELSE LET engine == Lookup(c, NormExt(ext))
           found == IF Truthy(engine) THEN engine ELSE Lookup(c, Star)
       IN  IF Truthy(found) THEN Ret("engine", found, 0) ELSE Ret("undefined", "", 0)

Get ==
  /\ nops < MaxOps
  /\ \E ext \in Exts, argc \in {0, 1} :
       /\ argc = 0 => ext = <<>>
       /\ ret' = get(cache, argc, ext)
       /\ call' = [Call("get", argc) EXCEPT !.ext = ext]
  /\ nops' = nops + 1
  /\ UNCHANGED <<options, cache, heap, held>>

(* The caller keeps the mapping get() returned, and writes to it. *)

holdCopy(c) == [state |-> "detached", map |-> c]

holdResult(c) == [state |-> "live", map |-> EmptyMap]

HeldView == IF held.state = "live" THEN cache ELSE held.map

HeldKeys == {Star, DotTmpl}

HeldVals == {"objR"}

GetHold ==
  /\ nops < MaxOps
  /\ ret' = get(cache, 0, <<>>)
  /\ call' = [Call("get", 0) EXCEPT !.a2 = "kept"]
  /\ held' = holdResult(cache)
  /\ nops' = nops + 1
  /\ UNCHANGED <<options, cache, heap>>

HeldSet ==
  /\ nops < MaxOps
  /\ held.state # "none"
  /\ \E key \in HeldKeys, v \in HeldVals :
       /\ IF held.state = "live"
          THEN cache' = Put(cache, key, v) /\ held' = held
          ELSE held' = [held EXCEPT !.map = Put(held.map, key, v)] /\ cache' = cache
       /\ call' = [Call("held.set", 2) EXCEPT !.ext = key, !.a2 = v]
  /\ ret' = Ret("none", "", 0)
  /\ nops' = nops + 1
  /\ UNCHANGED <<options, heap>>

HeldDelete ==
  /\ nops < MaxOps
  /\ held.state # "none"
  /\ \E key \in HeldKeys :
       /\ IF held.state = "live"
          THEN cache' = Remove(cache, key) /\ held' = held
          ELSE held' = [held EXCEPT !.map = Remove(held.map, key)] /\ cache' = cache
       /\ call' = [Call("held.delete", 1) EXCEPT !.ext = key]
  /\ ret' = Ret("none", "", 0)
  /\ nops' = nops + 1
  /\ UNCHANGED <<options, heap>>

clearNoNorm(c, argc, ext) ==
  IF argc = 1 /\ Len(ext) # 0 THEN Remove(c, ext) ELSE EmptyMap

clear(c, argc, ext) ==
  IF argc = 1 /\ Len(ext) # 0 THEN Remove(c, NormExt(ext)) ELSE EmptyMap

ClearAll ==
  /\ nops < MaxOps
  /\ \E ext \in Exts, argc \in {0, 1} :
       /\ argc = 0 => ext = <<>>
       /\ cache' = clear(cache, argc, ext)
       /\ options' = IF argc = 1 /\ Len(ext) # 0 THEN options ELSE EmptyMap
       /\ ret' = Ret("undefined", "", 0)
       /\ call' = [Call("clear", argc) EXCEPT !.ext = ext]
       /\ held' = IF argc = 1 /\ Len(ext) # 0 THEN held ELSE replaceCache(held, cache)
  /\ nops' = nops + 1
  /\ UNCHANGED heap

Clear ==
  /\ nops < MaxOps
  /\ \E ext \in Exts, argc \in {0, 1} :
       /\ argc = 0 => ext = <<>>
       /\ cache' = clear(cache, argc, ext)
       /\ ret' = Ret("undefined", "", 0)
       /\ call' = [Call("clear", argc) EXCEPT !.ext = ext]
       /\ held' = IF argc = 1 /\ Len(ext) # 0 THEN held ELSE replaceCache(held, cache)
  /\ nops' = nops + 1
  /\ UNCHANGED <<options, heap>>

----------------------------------------------------------------------------
(* load, src/index.js:194-204 *)

LoadKeys == <<<<"x">>, DotTmpl>>

LoadVals == {"fnR", "objE", "objS", "null"}

(* The values a property read throws on. *)
Nullish(v) == v \in {"null", "undefined"}

LoadArgs == UNION {[1..n -> LoadVals] : n \in 0..Len(LoadKeys)}

OwnsRenderAlways(h, v) == v \in DOMAIN h

OwnsRenderCallable(h, v) == HasRender(h, v)

OwnsRender(h, v) == v \in DOMAIN h /\ h[v].render # "absent"

RECURSIVE load(_, _, _, _)
load(c, h, obj, i) ==
  IF i > Len(obj) THEN [cache |-> c, heap |-> h, ret |-> Ret("registry", "", 0)]
  ELSE IF Nullish(obj[i])
       THEN [cache |-> c, heap |-> h, ret |-> Ret("throw", "TypeError", 0)]
  ELSE IF OwnsRender(h, obj[i])
       THEN LET r == register(c, h, LoadKeys[i], 2, obj[i], "")
            IN  IF r.ret.kind = "throw" THEN r ELSE load(r.cache, r.heap, obj, i + 1)
       ELSE load(c, h, obj, i + 1)

Load ==
  /\ nops < MaxOps
  /\ \E obj \in LoadArgs :
       LET r == load(cache, heap, obj, 1)
       IN  /\ cache' = r.cache
           /\ heap' = r.heap
           /\ ret' = r.ret
           /\ call' = [Call("load", 1) EXCEPT !.list = obj]
  /\ nops' = nops + 1
  /\ UNCHANGED <<options, held>>

----------------------------------------------------------------------------
(* The module as loaded: src/index.js:36, 45 *)

Init ==
  /\ options = EmptyMap
  /\ cache = EmptyMap
  /\ heap = Assign(DefaultsHeap, CallerHeap)
  /\ call = Call("load-module", 0)
  /\ ret = Ret("none", "", 0)
  /\ nops = 0
  /\ held = NotHeld

Next ==
  \/ engines
  \/ enginesNoArgs
  \/ init
  \/ initNoArgs
  \/ DefaultEngines
  \/ Extend
  \/ OptionGet
  \/ OptionMerge
  \/ OptionSet
  \/ Register
  \/ Load
  \/ Get
  \/ Clear

Spec == Init /\ [][Next]_vars

(* Every public call, one call short of the budget of the narrower specifications. *)
NextFrame == nops < MaxOps - 1 /\ Next

SpecFrame == Init /\ [][NextFrame]_vars

(* The engine cache alone: the calls that read or write the cache. *)
NextCache ==
  \/ enginesNoArgs
  \/ initNoArgs
  \/ DefaultEngines
  \/ Register
  \/ Load
  \/ Get
  \/ Clear

SpecCache == Init /\ [][NextCache]_vars

(* The options store alone: the calls that read, write or reset it. *)
NextOptions ==
  \/ engines
  \/ enginesNoArgs
  \/ init
  \/ initNoArgs
  \/ Extend
  \/ OptionGet
  \/ OptionMerge
  \/ OptionSet
  \/ Clear

SpecOptions == Init /\ [][NextOptions]_vars

(* Lookups, removals and option reads against registered engines and set options. *)
NextMisses ==
  \/ initNoArgs
  \/ DefaultEngines
  \/ OptionSet
  \/ OptionGet
  \/ Register
  \/ Get
  \/ Clear

SpecMisses == Init /\ [][NextMisses]_vars

(* The engine cache with a caller that keeps and edits the mapping get() returns. *)
NextLive ==
  \/ enginesNoArgs
  \/ initNoArgs
  \/ DefaultEngines
  \/ Register
  \/ Load
  \/ Get
  \/ Clear
  \/ GetHold
  \/ HeldSet
  \/ HeldDelete

SpecLive == Init /\ [][NextLive]_vars

----------------------------------------------------------------------------
(* Properties *)

IsRegister(c) == c.op = "register"

(* init, called directly or through engines(options). *)
IsInit(c) == c.op \in {"init", "engines"}

IsGetExt(c) == c.op = "get" /\ c.argc = 1 /\ Len(c.ext) # 0

IsOptionGet(c) == c.op = "option" /\ c.argc = 1 /\ c.key # ""

IsOptionMerge(c) == c.op = "option" /\ c.argc = 1 /\ c.key = ""

IsOptionSet(c) == c.op = "option" /\ c.argc = 2

UndottedExts == {e \in Exts \cup {Tmpl} : Len(e) = 0 \/ e[1] # "."}

(* The normalization the specification describes: `*`, the empty string and
   dotted keys are kept, everything else gets a leading dot. *)
SpecNorm(ext) ==
  IF ext = Star \/ Len(ext) = 0 \/ ext[1] = "." THEN ext ELSE <<".">> \o ext

(* The wildcard descriptor init registered is still where register put it. *)
WildcardInstalled == Lookup(cache, NormExt(Star)) = "noop"

(* C1: while the wildcard default that init registered is in the cache, get(ext)
   for an extension with no exact entry returns the bundled noop descriptor and
   never an absent value. *)
C1_WildcardFallback ==
  (IsGetExt(call) /\ WildcardInstalled /\ NormExt(call.ext) \notin DOMAIN cache)
    => ret = Ret("engine", "noop", 0)

(* C2: register(ext, fn) with a callable fn succeeds, and get(ext) then returns
   a descriptor whose render is fn's own render when fn exposes one, and fn
   itself otherwise (stated for the non-empty extensions, which get looks up). *)
C2_CallableRoundTrip ==
  (IsRegister(call) /\ call.argc = 2 /\ call.a2 \in Functions /\ Len(call.ext) # 0)
    => /\ ret.kind = "registry"
       /\ LET g == get(cache, 1, call.ext)
              own == CallerHeap[call.a2].render
          IN  /\ g.kind = "engine"
              /\ heap[g.ref].render = IF own \in Functions THEN own ELSE call.a2

(* C3: register(ext, d) with a descriptor d that has no callable render raises
   the Invalid Engine error and leaves the engine cache as it was: the same keys,
   the same descriptors, and no stored descriptor changed. *)
C3_FailedRegisterKeepsCache ==
  [][(/\ IsRegister(call')
      /\ RegFn(call'.argc, call'.a2, call'.a3) \in DOMAIN heap
      /\ ~HasRender(heap, RegFn(call'.argc, call'.a2, call'.a3)))
       => /\ ret' = Ret("throw", "InvalidEngine", 0)
          /\ cache' = cache
          /\ \A k \in DOMAIN cache : heap'[cache[k]] = heap[cache[k]]]_vars

(* A register call failed on an extension that had a descriptor, which is kept. *)
C3_Witness ==
  /\ IsRegister(call)
  /\ ret = Ret("throw", "InvalidEngine", 0)
  /\ call.a2 = "objE"
  /\ NormExt(call.ext) \in DOMAIN cache
  /\ HasRender(heap, cache[NormExt(call.ext)])

(* C4 as stated: for every extension string e without a leading dot, the empty
   string included, get(e) and get("." + e) return the same thing. *)
C4_LookupNormalizationAll ==
  \A e \in UndottedExts : get(cache, 1, e) = get(cache, 1, <<".">> \o e)

(* C4 amended: for every non-empty extension string e without a leading dot,
   get(e) and get("." + e) return the identical descriptor. *)
C4_LookupNormalization ==
  \A e \in UndottedExts :
    Len(e) # 0 => get(cache, 1, e) = get(cache, 1, <<".">> \o e)

(* get("x") found the descriptor registered under ".x". *)
C4_Witness ==
  /\ IsGetExt(call)
  /\ call.ext = <<"x">>
  /\ <<".", "x">> \in DOMAIN cache
  /\ ret = Ret("engine", cache[<<".", "x">>], 0)
  /\ ret = get(cache, 1, <<".", "x">>)

(* C5: after init(opts) the options store holds exactly the entries of opts, and
   after init() it is empty: no option set before the init survives. *)
C5_InitSeedsOptions ==
  IsInit(call)
    => /\ options = call.obj
       /\ \A k \in DOMAIN call.obj : OptionRead(options, k) = Ret("value", "", call.obj[k])
       /\ call.argc = 0 => options = EmptyMap

(* init({a: 1}) was called after two earlier calls. *)
C5_Witness ==
  /\ call.op = "init"
  /\ call.argc = 1
  /\ DOMAIN call.obj = {"a"}
  /\ DOMAIN options = {"a"}
  /\ nops = MaxOps

(* C6: after init the engine cache contains exactly two entries, keyed `.tmpl`
   and `*`. *)
C6_InitInstallsDefaults ==
  IsInit(call) => DOMAIN cache = {DotTmpl, Star}

(* C7: a successful register(ext, ...) stores the descriptor under the key the
   specification's normalization gives (`*` and the empty string kept as they
   are), and writes no other cache key. *)
C7_RegisterKey ==
  [][(IsRegister(call') /\ ret'.kind = "registry")
       => cache' = Put(cache, SpecNorm(call'.ext),
                       RegFn(call'.argc, call'.a2, call'.a3))]_vars

(* C8 as stated: clear(ext) with an extension, the empty string included,
   removes exactly the entry of the normalized ext; clear() empties the cache. *)
C8_ClearAnyExt ==
  [][call'.op = "clear"
       => IF call'.argc = 1
          THEN cache' = Remove(cache, NormExt(call'.ext))
          ELSE cache' = EmptyMap]_vars

(* C8 amended: clear(ext) with a non-empty extension removes exactly the entry
   under the dot-normalized ext and leaves every other entry and every stored
   descriptor unchanged, a no-op when there is no such entry; clear() with no
   argument, like clear(""), leaves the cache empty. *)
C8_ClearSemantics ==
  [][call'.op = "clear"
       => /\ heap' = heap
          /\ ret'.kind # "throw"
          /\ IF call'.argc = 1 /\ call'.ext # <<>>
             THEN LET key == IF call'.ext[1] = "." THEN call'.ext
                             ELSE <<".">> \o call'.ext
                  IN  /\ DOMAIN cache' = DOMAIN cache \ {key}
                      /\ \A k \in DOMAIN cache' : cache'[k] = cache[k]
             ELSE /\ cache' = EmptyMap
                  /\ get(cache', 0, <<>>) = Ret("cache", "", 0)]_vars

(* clear(".tmpl") after init removed the `.tmpl` entry and kept the wildcard. *)
C8_Witness ==
  /\ call.op = "clear"
  /\ call.argc = 1
  /\ call.ext = DotTmpl
  /\ nops >= 2
  /\ DotTmpl \notin DOMAIN cache
  /\ WildcardInstalled

(* C9: extend(obj) leaves the left-to-right shallow merge: the keys of obj take
   obj's value, the other keys keep their value, and no key is dropped. *)
C9_ExtendAccumulates ==
  [][call'.op = "extend"
       => /\ DOMAIN options' = DOMAIN options \cup DOMAIN call'.obj
          /\ \A k \in DOMAIN call'.obj : options'[k] = call'.obj[k]
          /\ \A k \in DOMAIN options \ DOMAIN call'.obj : options'[k] = options[k]]_vars

(* extend({b: ..}) was called on a store that held `a`, and both are there. *)
C9_Witness ==
  /\ call.op = "extend"
  /\ DOMAIN call.obj = {"b"}
  /\ DOMAIN options = {"a", "b"}
  /\ options["a"] # options["b"]

(* C10: option(key, value) makes option(key) return value and changes no other
   key; option(key) is a pure read, absent for an unset key; option(mapping)
   leaves the store as extend(mapping) would. *)
C10_OptionShapes ==
  [][/\ IsOptionSet(call')
          => /\ OptionRead(options', call'.key) = Ret("value", "", call'.val)
             /\ DOMAIN options' = DOMAIN options \cup {call'.key}
             /\ \A k \in DOMAIN options \ {call'.key} : options'[k] = options[k]
     /\ (IsOptionSet(call) /\ IsOptionGet(call') /\ call'.key = call.key)
          => ret' = Ret("value", "", call.val)
     /\ IsOptionGet(call')
          => /\ options' = options
             /\ call'.key \notin DOMAIN options => ret' = Ret("undefined", "", 0)
             /\ call'.key \in DOMAIN options
                  => ret' = Ret("value", "", options[call'.key])
     /\ IsOptionMerge(call') => options' = extend(options, call'.obj)]_vars

IsLoad(c) == c.op = "load"

LoadKey(i) == IF LoadKeys[i][1] = "." THEN LoadKeys[i] ELSE <<".">> \o LoadKeys[i]

(* The entries of a load mapping that own a render property, callable or not. *)
Owning(h, obj) ==
  {i \in 1..Len(obj) : obj[i] \in DOMAIN h /\ h[obj[i]].render # "absent"}

(* The entries of a load mapping whose own render is not callable. *)
Bad(h, obj) == {i \in Owning(h, obj) : h[obj[i]].render \notin Functions}

(* The entries of a load mapping whose value is null or undefined. *)
NullEntries(obj) == {i \in 1..Len(obj) : Nullish(obj[i])}

(* The entries load cannot get past, and the first of them. *)
Stopping(h, obj) == Bad(h, obj) \cup NullEntries(obj)

FirstStop(h, obj) == CHOOSE i \in Stopping(h, obj) : \A j \in Stopping(h, obj) : i <= j

(* C11 as stated: load(m) registers every entry whose value owns a render
   property under its normalized key, registers no entry that lacks one, and
   raises no error. *)
C11_LoadRegistersOwners ==
  [][IsLoad(call')
       => /\ ret'.kind # "throw"
          /\ \A i \in Owning(heap, call'.list) : Lookup(cache', LoadKey(i)) = call'.list[i]
          /\ \A i \in 1..Len(call'.list) \ Owning(heap, call'.list) :
               Lookup(cache', LoadKey(i)) = Lookup(cache, LoadKey(i))]_vars

(* C11 amended: when every value of m is an object or a function and none owns a
   render that is not callable, load(m) registers every entry that owns a render
   property under its dot-normalized key, writes no key for an entry that lacks
   one, and raises no error; otherwise load raises at the first entry it cannot
   get past: the Invalid Engine error when that entry owns a render that is not
   callable, a TypeError when its value is null or undefined. *)
C11_LoadRegistersCallableOwners ==
  [][IsLoad(call')
       => LET obj == call'.list
          IN  /\ Stopping(heap, obj) = {}
                   => /\ ret' = Ret("registry", "", 0)
                      /\ \A i \in Owning(heap, obj) : Lookup(cache', LoadKey(i)) = obj[i]
                      /\ \A i \in 1..Len(obj) \ Owning(heap, obj) :
                           Lookup(cache', LoadKey(i)) = Lookup(cache, LoadKey(i))
                      /\ DOMAIN cache' =
                           DOMAIN cache \cup {LoadKey(i) : i \in Owning(heap, obj)}
              /\ (Stopping(heap, obj) # {} /\ FirstStop(heap, obj) \in Bad(heap, obj))
                   => ret' = Ret("throw", "InvalidEngine", 0)
              /\ (Stopping(heap, obj) # {} /\ FirstStop(heap, obj) \in NullEntries(obj))
                   => ret' = Ret("throw", "TypeError", 0)]_vars

(* load({x: {}, ".tmpl": fnR}) skipped the first entry and registered the second. *)
C11_Witness ==
  /\ IsLoad(call)
  /\ call.list = <<"objE", "fnR">>
  /\ ret = Ret("registry", "", 0)
  /\ DOMAIN cache = {DotTmpl}
  /\ cache[DotTmpl] = "fnR"

(* A successful register(ext, ..., d2) on an extension that holds a descriptor
   d1: the entry is d2, the cache has no new key, and d2's fields are its own. *)
Replaces(ext) ==
  LET d2 == RegFn(call'.argc, call'.a2, call'.a3)
      key == NormExt(call'.ext)
  IN  /\ cache'[key] = d2
      /\ DOMAIN cache' = DOMAIN cache
      /\ \A k \in DOMAIN cache \ {key} : cache'[k] = cache[k]
      /\ get(cache', 1, ext) = Ret("engine", d2, 0)
      /\ cache[key] # d2
           => /\ heap'[cache[key]] = heap[cache[key]]
              /\ heap'[d2].render = Read(heap[d2].render)
              /\ heap'[d2].renderFile \in {heap[d2].renderFile, Read(heap[d2].express)}
              /\ heap'[d2].options \in {heap[d2].options, RegOptions(call'.argc, call'.a2)}

(* C12 as stated: for any ext, the empty string included, after register(ext, d1)
   and then register(ext, d2), get(ext) returns d2, the cache holds one entry for
   the normalized ext, and nothing of d1 is merged into the stored descriptor. *)
C12_LastRegistrationWinsAnyExt ==
  [][(IsRegister(call') /\ ret'.kind = "registry" /\ NormExt(call'.ext) \in DOMAIN cache)
       => Replaces(call'.ext)]_vars

(* C12 amended: the same for any non-empty ext. *)
C12_LastRegistrationWins ==
  [][(/\ IsRegister(call')
      /\ ret'.kind = "registry"
      /\ call'.ext # <<>>
      /\ NormExt(call'.ext) \in DOMAIN cache)
       => Replaces(call'.ext)]_vars

(* register("x", fnR) and then register("x", objR): the one entry is objR. *)
C12_Witness ==
  /\ nops = 2
  /\ IsRegister(call)
  /\ call.ext = <<"x">>
  /\ call.a2 = "objR"
  /\ ret = Ret("registry", "", 0)
  /\ DOMAIN cache = {<<".", "x">>}
  /\ cache[<<".", "x">>] = "objR"
  /\ heap["fnR"].options # "absent"

IsClear(c) == c.op = "clear"

(* The step leaves the engine cache, the descriptors and the options store alone,
   and does not raise. *)
Harmless ==
  /\ ret'.kind # "throw"
  /\ cache' = cache
  /\ heap' = heap
  /\ options' = options

(* No entry under `*`, where get looks, nor under `.*`, where register puts one. *)
WildcardRemoved == Star \notin DOMAIN cache /\ NormExt(Star) \notin DOMAIN cache

(* The misses of get(ext) and clear(ext) for the extensions in E, and of option(key). *)
MissesAreValues(E) ==
  /\ (call'.op = "get" /\ call'.argc = 1 /\ call'.ext \in E
        /\ NormExt(call'.ext) \notin DOMAIN cache)
       => /\ Harmless
          /\ WildcardRemoved => ret' = Ret("undefined", "", 0)
  /\ (IsClear(call') /\ call'.argc = 1 /\ call'.ext \in E
        /\ NormExt(call'.ext) \notin DOMAIN cache)
       => Harmless
  /\ (IsOptionGet(call') /\ call'.key \notin DOMAIN options)
       => /\ Harmless
          /\ ret' = IF call'.key \in DOMAIN ObjectPrototype
                    THEN Ret("value", ObjectPrototype[call'.key], 0)
                    ELSE Ret("undefined", "", 0)

(* C13 as stated: get(ext) and clear(ext) on any unregistered extension, the empty
   string included, and option(key) on an unset key never raise and change neither
   store; with no wildcard entry and no exact match get(ext) returns the absent
   value. *)
C13_MissesAreValuesAnyExt == [][MissesAreValues(Exts)]_vars

(* C13 amended: the same for the non-empty extensions. *)
C13_MissesAreValues == [][MissesAreValues(Exts \ {<<>>})]_vars

(* init, clear("*"), get("x"): the default under `.tmpl` is still there, nothing
   matches and nothing stands in for it. *)
C13_Witness ==
  /\ IsGetExt(call)
  /\ call.ext = <<"x">>
  /\ WildcardRemoved
  /\ DotTmpl \in DOMAIN cache
  /\ ret = Ret("undefined", "", 0)

(* C14: clear, with or without an extension, returns the registry itself, as
   extend, register, load and the write forms of option do. *)
C14_ClearChainable == IsClear(call) => ret = Ret("registry", "", 0)

(* C15: in every state reached by init, register, load and clear calls, failed
   ones included, every descriptor stored in the engine cache has a callable
   render. *)
C15_CachedEnginesRender == \A k \in DOMAIN cache : HasRender(heap, cache[k])

(* A rejected register after two accepted ones: both entries are still callable. *)
C15_Witness ==
  /\ nops = MaxOps
  /\ IsRegister(call)
  /\ ret.kind = "throw"
  /\ Cardinality(DOMAIN cache) >= 2
  /\ \A k \in DOMAIN cache : HasRender(heap, cache[k])

(* C16: register, load, get and both forms of clear never change the options
   store; extend and every form of option never change the engine cache or a
   descriptor; only init changes both. *)
C16_StoresIndependent ==
  [][/\ call'.op \in {"register", "load", "get", "clear", "defaultEngines"}
          => options' = options
     /\ call'.op \in {"extend", "option"} => cache' = cache /\ heap' = heap
     /\ (options' # options /\ cache' # cache) => IsInit(call')]_vars

(* init({a: 1}) or an option write, then clear(): the cache is empty and the
   options are still there. *)
C16_Witness ==
  /\ IsClear(call)
  /\ call.argc = 0
  /\ cache = EmptyMap
  /\ options # EmptyMap

(* C17: a successful register(ext, options, engine) leaves get(ext).options equal
   to the options of that call when the caller supplied the engine without an
   options property of its own, whatever was registered before, and equal to the
   caller's own options property when the engine carries one. *)
C17_PerRegistrationOptions ==
  (IsRegister(call) /\ call.argc = 3 /\ ret.kind = "registry" /\ Len(call.ext) # 0)
    => LET g == get(cache, 1, call.ext)
           own == CallerHeap[call.a3].options
       IN  /\ g = Ret("engine", call.a3, 0)
           /\ heap[g.ref].options = IF own = "absent" THEN call.a2 ELSE own

(* The last call was a get() whose result the caller kept. *)
JustHeld == call.op = "get" /\ call.argc = 0 /\ call.a2 = "kept"

(* The extensions get(ext) looks up under key, and those with no entry in c. *)
Reaching(key) == {e \in Exts \ {<<>>} : NormExt(e) = key}

Unmatched(c) == {e \in Exts \ {<<>>} : NormExt(e) \notin DOMAIN c}

(* C18: the mapping get() returns is the registry's own cache: an entry the caller
   adds to it or deletes from it right away is what get(ext) on the registry then
   observes (by its key, or as the fallback when the key is `*`), and a
   register(ext, d) that follows shows in the mapping. *)
C18_GetReturnsLiveCache ==
  [][JustHeld =>
       /\ call'.op = "held.set"
            => /\ Lookup(cache', call'.ext) = call'.a2
               /\ \A e \in Reaching(call'.ext) :
                    get(cache', 1, e) = Ret("engine", call'.a2, 0)
               /\ call'.ext = Star
                    => \A e \in Unmatched(cache') :
                         get(cache', 1, e) = Ret("engine", call'.a2, 0)
       /\ call'.op = "held.delete"
            => /\ call'.ext \notin DOMAIN cache'
               /\ \A e \in Reaching(call'.ext) :
                    get(cache', 1, e) = IF Star \in DOMAIN cache'
                                        THEN Ret("engine", cache'[Star], 0)
                                        ELSE Ret("undefined", "", 0)
               /\ call'.ext = Star
                    => \A e \in Unmatched(cache') :
                         get(cache', 1, e) = Ret("undefined", "", 0)
       /\ (IsRegister(call') /\ ret'.kind = "registry")
            => Lookup(HeldView', NormExt(call'.ext)) = RegFn(call'.argc, call'.a2, call'.a3)]_vars

(* init, get() kept, and the caller deleted `.tmpl` from the mapping: the registry
   has lost its `.tmpl` entry. *)
C18_Witness ==
  /\ call.op = "held.delete"
  /\ call.ext = DotTmpl
  /\ held.state = "live"
  /\ DOMAIN cache = {NormExt(Star)}

(* The calls that assign a new cache object, and the calls that write the current
   one, when clear(ext) means a clear with one argument taken from E. *)
ReplacingCall(c, E) == IsInit(c) \/ (IsClear(c) /\ ~(c.argc = 1 /\ c.ext \in E))

WritingCall(c, E) ==
  c.op \in {"register", "load", "defaultEngines"} \/ (IsClear(c) /\ c.argc = 1 /\ c.ext \in E)

ReplacedNotEmptied(E) ==
  /\ (held.state # "none" /\ ReplacingCall(call', E))
       => held'.state = "detached" /\ HeldView' = HeldView
  /\ (held.state = "detached" /\ WritingCall(call', E))
       => HeldView' = HeldView
  /\ (held.state = "live" /\ WritingCall(call', E))
       => held'.state = "live" /\ HeldView' = cache'

(* C19 as stated: a mapping obtained from get() keeps its entries across a clear()
   with no argument and across init and no longer follows the registry after it,
   and across register, load and clear(ext), for any ext, it stays the registry's
   cache. *)
C19_ReplacedNotEmptiedAnyExt == [][ReplacedNotEmptied(Exts)]_vars

(* C19 amended: the same with clear(ext) for the non-empty extensions; clear("")
   replaces the cache as clear() does. *)
C19_ReplacedNotEmptied == [][ReplacedNotEmptied(Exts \ {<<>>})]_vars

(* A kept mapping with an entry in it, and the registry's cache emptied by clear(). *)
C19_Witness ==
  /\ IsClear(call)
  /\ call.argc = 0
  /\ held.state = "detached"
  /\ held.map # EmptyMap
  /\ cache = EmptyMap

(* C20: when an entry that owns a non-callable render makes load raise the Invalid
   Engine error, the entries registered before it, in the mapping's order, are in
   the cache, and the entries after it are not registered: every other key is as
   it was before the call. *)
C20_LoadNotAtomic ==
  [][(/\ IsLoad(call')
      /\ Stopping(heap, call'.list) # {}
      /\ FirstStop(heap, call'.list) \in Bad(heap, call'.list))
       => LET obj == call'.list
              b == FirstStop(heap, obj)
          IN  /\ ret' = Ret("throw", "InvalidEngine", 0)
              /\ \A i \in 1..(b - 1) :
                   OwnsRender(heap, obj[i]) => Lookup(cache', LoadKey(i)) = obj[i]
              /\ \A i \in b..Len(obj) :
                   Lookup(cache', LoadKey(i)) = Lookup(cache, LoadKey(i))
              /\ \A i \in 1..(b - 1) :
                   ~OwnsRender(heap, obj[i])
                     => Lookup(cache', LoadKey(i)) = Lookup(cache, LoadKey(i))]_vars

(* load({x: fnR, '.tmpl': objS}) on an empty cache raised, and `.x` is registered. *)
C20_Witness ==
  /\ IsLoad(call)
  /\ call.list = <<"fnR", "objS">>
  /\ ret = Ret("throw", "InvalidEngine", 0)
  /\ DOMAIN cache = {<<".", "x">>}
  /\ cache[<<".", "x">>] = "fnR"

====
